---- MODULE Spec2Model ----
(***************************************************************************)
(* A model of life_expectancy.cleaning.DataCleaner: the extract /          *)
(* transform / load object of src/life_expectancy/cleaning.py, with the    *)
(* four private stages of transform (_unpivot, _rename, _filter,           *)
(* _reformat) translated from their pandas calls.                          *)
(*                                                                         *)
(* Strings are sequences of one-character strings, so that str.split,      *)
(* str.replace, str.strip, str.upper and the regular expression of         *)
(* _reformat are computed character by character.  A DataFrame is a record *)
(* [cols, rows]: cols the column labels in order, rows the rows in order,  *)
(* each row a sequence of cells aligned with cols.  A cell is a string, a  *)
(* null (None / NaN) or a float; a float is held in tenths.  The row index *)
(* of a DataFrame is not modelled: load writes with index=False.           *)
(***************************************************************************)
EXTENDS Integers, Sequences, FiniteSets, TLC

VARIABLES
    input_file,      \* the content of the file input_fn names, or None
    raw_df,          \* self.raw_df
    transformed_df,  \* self.transformed_df
    written,         \* the tables to_csv has written, in order
    warnings,        \* the number of logging.warning calls made
    call,            \* history: the last call made and its arguments
    before,          \* history: the state the last call started from
    outcome,         \* history: "ok", or the exception the last call raised
    last_transform,  \* history: how the most recent transform call ended
    ncalls           \* the number of calls made

vars == <<input_file, raw_df, transformed_df, written, warnings,
          call, before, outcome, last_transform, ncalls>>

----------------------------------------------------------------------------
(* Bounds *)

MaxRows == 2        \* rows of a raw table
MaxYears == 2       \* year columns of a raw table
MaxLongRows == 3    \* rows of a long table given to _rename / _filter
MaxValueRows == 2   \* rows of a long table given to _reformat
MaxLen == 3         \* characters of a raw value string given to _reformat
MaxCalls == 3       \* calls made on one DataCleaner instance

----------------------------------------------------------------------------
(* Values *)

None == [none |-> TRUE]

StrCell(s) == [t |-> "str", s |-> s, n |-> 0]
NullCell == [t |-> "null", s |-> <<>>, n |-> 0]
FloatCell(n) == [t |-> "float", s |-> <<>>, n |-> n]

Absent == [some |-> FALSE, v |-> <<>>]
Given(v) == [some |-> TRUE, v |-> v]

YEAR == <<"y", "e", "a", "r">>
VALUE == <<"v", "a", "l", "u", "e">>
REGION == <<"r", "e", "g", "i", "o", "n">>

Range(f) == {f[i] : i \in DOMAIN f}

SeqsUpTo(S, lo, hi) == UNION {[1..k -> S] : k \in lo..hi}

Max(S) == IF S = {} THEN 0 ELSE CHOOSE m \in S : \A k \in S : k <= m

Min(S) == CHOOSE m \in S : \A k \in S : m <= k

----------------------------------------------------------------------------
(* Python str methods *)

RECURSIVE str_split(_, _)
str_split(s, sep) ==
    IF \A i \in 1..Len(s) : s[i] # sep
    THEN <<s>>
    ELSE LET i == Min({k \in 1..Len(s) : s[k] = sep})
         IN <<SubSeq(s, 1, i - 1)>> \o str_split(SubSeq(s, i + 1, Len(s)), sep)

str_replace(s, old, new) ==
    [i \in 1..Len(s) |-> IF s[i] = old THEN new ELSE s[i]]

Whitespace == {" ", "\t", "\n"}

str_strip(s) ==
    LET solid == {i \in 1..Len(s) : s[i] \notin Whitespace}
    IN IF solid = {} THEN <<>> ELSE SubSeq(s, Min(solid), Max(solid))

LowerCase == <<"a", "b", "c", "d", "e", "f", "g", "h", "i", "j", "k", "l", "m",
               "n", "o", "p", "q", "r", "s", "t", "u", "v", "w", "x", "y", "z">>
UpperCase == <<"A", "B", "C", "D", "E", "F", "G", "H", "I", "J", "K", "L", "M",
               "N", "O", "P", "Q", "R", "S", "T", "U", "V", "W", "X", "Y", "Z">>

upper_identity(s) == s

str_upper(s) ==
    [i \in 1..Len(s) |->
        IF \E k \in 1..Len(LowerCase) : LowerCase[k] = s[i]
        THEN UpperCase[CHOOSE k \in 1..Len(LowerCase) : LowerCase[k] = s[i]]
        ELSE s[i]]

----------------------------------------------------------------------------
(* DataFrames *)

DataFrame(cols, rows) == [cols |-> cols, rows |-> rows]

Ok(df) == [err |-> "ok", df |-> df, warned |-> FALSE]
Warned(df) == [err |-> "ok", df |-> df, warned |-> TRUE]
Raise(e, df) == [err |-> e, df |-> df, warned |-> FALSE]

\* The positions of the columns labelled name.
Labelled(df, name) == {k \in 1..Len(df.cols) : df.cols[k] = name}

\* df.<name>: the one column labelled name, as the sequence of its cells.
Column(df, name) ==
    LET k == CHOOSE c \in Labelled(df, name) : TRUE
    IN [i \in 1..Len(df.rows) |-> df.rows[i][k]]

\* The cell of row i in the column labelled name.
Cell(df, name, i) == df.rows[i][CHOOSE c \in Labelled(df, name) : TRUE]

\* df[mask]
BooleanIndex(df, mask) ==
    LET kept == {i \in 1..Len(df.rows) : mask[i]}
        nth[n \in 0..Len(df.rows)] ==
            IF n = 0 THEN 0
            ELSE Min({i \in kept : i > nth[n - 1]})
    IN DataFrame(df.cols, [n \in 1..Cardinality(kept) |-> df.rows[nth[n]]])

----------------------------------------------------------------------------
(* _unpivot *)

\* raw_df.iloc[:, 0].str.split(',', expand=True): one row of parts per source
\* row, every row padded with None to the width of the widest; a table of no
\* rows expands to no columns.
SplitRows(df) ==
    [i \in 1..Len(df.rows) |-> str_split(df.rows[i][1].s, ",")]

ExpandedWidth(df) ==
    LET parts == SplitRows(df)
    IN Max({Len(parts[i]) : i \in 1..Len(df.rows)})

expanded_index(df) ==
    LET parts == SplitRows(df)
        width == ExpandedWidth(df)
    IN [i \in 1..Len(df.rows) |->
           [k \in 1..width |->
               IF k <= Len(parts[i]) THEN StrCell(parts[i][k]) ELSE NullCell]]

\* raw_df.columns[0].replace("\\", ",").split(",")[:-1]
index_cols(df) ==
    LET parts == str_split(str_replace(df.cols[1], "\\", ","), ",")
    IN SubSeq(parts, 1, Len(parts) - 1)

year_values_skip_first(df) ==
    DataFrame([j \in 1..(Len(df.cols) - 2) |-> str_strip(df.cols[j + 2])],
              [i \in 1..Len(df.rows) |-> SubSeq(df.rows[i], 3, Len(df.cols))])

\* raw_df.iloc[:, 1:], its column labels stripped
year_values(df) ==
    DataFrame([j \in 1..(Len(df.cols) - 1) |-> str_strip(df.cols[j + 1])],
              [i \in 1..Len(df.rows) |-> Tail(df.rows[i])])

\* pd.concat([a, b], axis=1), a given as its labels and its rows
concat(acols, arows, b) ==
    DataFrame(acols \o b.cols, [i \in 1..Len(arows) |-> arows[i] \o b.rows[i]])

\* The row melt makes of source row i and value column j.
MeltedRow(frame, id_vars, value_vars, i, j) ==
    [k \in 1..Len(id_vars) |-> Cell(frame, id_vars[k], i)]
        \o <<StrCell(value_vars[j]), Cell(frame, value_vars[j], i)>>

melt_row_major(frame, id_vars, value_vars) ==
    LET R == Len(frame.rows)
        Y == Len(value_vars)
    IN IF \E k \in 1..Len(id_vars) : Labelled(frame, id_vars[k]) = {}
       THEN Raise("KeyError", frame)
       ELSE Ok(DataFrame(id_vars \o <<YEAR, VALUE>>,
                [n \in 1..(R * Y) |->
                    MeltedRow(frame, id_vars, value_vars,
                              ((n - 1) \div Y) + 1, ((n - 1) % Y) + 1)]))

\* pd.melt(frame, id_vars, value_vars, var_name='year'): the id columns, then
\* 'year' and 'value'; the value columns are stacked one after the other, the
\* id columns repeated under each.
melt(frame, id_vars, value_vars) ==
    LET R == Len(frame.rows)
        Y == Len(value_vars)
    IN IF \E k \in 1..Len(id_vars) : Labelled(frame, id_vars[k]) = {}
       THEN Raise("KeyError", frame)
       ELSE Ok(DataFrame(id_vars \o <<YEAR, VALUE>>,
                [n \in 1..(R * Y) |->
                    MeltedRow(frame, id_vars, value_vars,
                              ((n - 1) % R) + 1, ((n - 1) \div R) + 1)]))

\* Assigning expanded_index.columns raises ValueError when the number of
\* labels differs from the number of columns.
_unpivot(df, id_vars) ==
    IF ExpandedWidth(df) # Len(index_cols(df))
    THEN Raise("ValueError", df)
    ELSE LET years == year_values(df)
         IN melt(concat(index_cols(df), expanded_index(df), years),
                 id_vars, years.cols)

----------------------------------------------------------------------------
(* _rename *)

\* rename_cols is a dict, held as a sequence of <<old, new>> pairs.
Keys(d) == {d[k][1] : k \in 1..Len(d)}

Lookup(d, key) == d[CHOOSE k \in 1..Len(d) : d[k][1] = key][2]

_rename(df, rename_cols) ==
    IF rename_cols.some /\ rename_cols.v # <<>>
    THEN Ok(DataFrame([k \in 1..Len(df.cols) |->
                          IF df.cols[k] \in Keys(rename_cols.v)
                          THEN Lookup(rename_cols.v, df.cols[k])
                          ELSE df.cols[k]],
                      df.rows))
    ELSE Ok(df)

----------------------------------------------------------------------------
(* _filter *)

\* Series.str.upper(): a null stays null.
UpperCell(c) == IF c.t = "str" THEN StrCell(str_upper(c.s)) ELSE c

filter_mask(df, region) ==
    LET wanted == {str_upper(region[k]) : k \in 1..Len(region)}
        region_col == Column(df, REGION)
    IN [i \in 1..Len(df.rows) |->
           /\ region_col[i].t = "str"
           /\ UpperCell(region_col[i]).s \in wanted]

filter_fail_closed(df, region) ==
    IF ~region.some \/ region.v = <<>>
    THEN Ok(df)
    ELSE IF Cardinality(Labelled(df, REGION)) # 1
    THEN Raise("AttributeError", df)
    ELSE Ok(BooleanIndex(df, filter_mask(df, region.v)))

\* df.region is the column when exactly one is labelled 'region'; with none
\* the attribute is missing and with several it is a DataFrame, which has
\* no .str: both raise AttributeError.
_filter(df, region) ==
    IF ~region.some \/ region.v = <<>>
    THEN Ok(df)
    ELSE IF Cardinality(Labelled(df, REGION)) # 1
    THEN Raise("AttributeError", df)
    ELSE LET mask == filter_mask(df, region.v)
         IN IF \A i \in 1..Len(df.rows) : ~mask[i]
            THEN Warned(df)
            ELSE Ok(BooleanIndex(df, mask))

----------------------------------------------------------------------------
(* _reformat *)

Digits == {"0", "1", "2", "3", "4", "5", "6", "7", "8", "9"}

DigitValue(c) ==
    CASE c = "0" -> 0 [] c = "1" -> 1 [] c = "2" -> 2 [] c = "3" -> 3
      [] c = "4" -> 4 [] c = "5" -> 5 [] c = "6" -> 6 [] c = "7" -> 7
      [] c = "8" -> 8 [] c = "9" -> 9

\* The pattern r'(\d+.\d)' tried at position i of s: the ends of the runs of
\* digits from i that are followed by one character other than a newline
\* (the dot of the pattern is not escaped) and one digit.
MatchEnds(s, i) ==
    {m \in i..(Len(s) - 2) :
        /\ \A k \in i..m : s[k] \in Digits
        /\ s[m + 1] # "\n"
        /\ s[m + 2] \in Digits}

\* Series.str.extract on one cell: the leftmost match, \d+ greedy; a cell
\* with no match, or a null cell, gives a null.
str_extract(c) ==
    LET starts == {i \in 1..Len(c.s) : MatchEnds(c.s, i) # {}}
    IN IF c.t # "str" \/ starts = {}
       THEN NullCell
       ELSE LET i == Min(starts)
            IN StrCell(SubSeq(c.s, i, Max(MatchEnds(c.s, i)) + 2))

RECURSIVE IntOf(_)
IntOf(s) ==
    IF s = <<>> THEN 0
    ELSE 10 * IntOf(SubSeq(s, 1, Len(s) - 1)) + DigitValue(s[Len(s)])

RECURSIVE Pow10(_)
Pow10(n) == IF n = 0 THEN 1 ELSE 10 * Pow10(n - 1)

\* float() accepts an extracted text (digits, one character, one digit) when
\* the character is a dot, a digit or an exponent mark.
Parses(s) == s[Len(s) - 1] \in Digits \cup {".", "e", "E"}

\* float() of an extracted text that parses, in tenths.
to_float(s) ==
    LET c == s[Len(s) - 1]
        head == IntOf(SubSeq(s, 1, Len(s) - 2))
        last == DigitValue(s[Len(s)])
    IN CASE c = "." -> 10 * head + last
         [] c \in Digits -> 10 * IntOf(s)
         [] OTHER -> 10 * head * Pow10(last)

\* value.astype(float) on one extracted cell
astype_float(c) == IF c.t = "str" THEN FloatCell(to_float(c.s)) ELSE NullCell

\* transformed_df["value"] = ...
SetValue(df, cells) ==
    LET k == CHOOSE c \in Labelled(df, VALUE) : TRUE
    IN DataFrame(df.cols,
                 [i \in 1..Len(df.rows) |-> [df.rows[i] EXCEPT ![k] = cells[i]]])

reformat_keep_null(df) ==
    IF Cardinality(Labelled(df, VALUE)) # 1
    THEN Raise("AttributeError", df)
    ELSE LET value == [i \in 1..Len(df.rows) |-> str_extract(Cell(df, VALUE, i))]
         IN IF \E i \in 1..Len(df.rows) : value[i].t = "str" /\ ~Parses(value[i].s)
            THEN Raise("ValueError", df)
            ELSE Ok(SetValue(df, [i \in 1..Len(df.rows) |-> astype_float(value[i])]))

\* df.value raises AttributeError unless exactly one column is labelled
\* 'value'; astype(float) raises ValueError, before transformed_df is
\* assigned, when an extracted text is no float literal.
_reformat(df) ==
    IF Cardinality(Labelled(df, VALUE)) # 1
    THEN Raise("AttributeError", df)
    ELSE LET value == [i \in 1..Len(df.rows) |-> str_extract(Cell(df, VALUE, i))]
         IN IF \E i \in 1..Len(df.rows) : value[i].t = "str" /\ ~Parses(value[i].s)
            THEN Raise("ValueError", df)
            ELSE LET set == SetValue(df, [i \in 1..Len(df.rows) |->
                                             astype_float(value[i])])
                 IN Ok(BooleanIndex(set, [i \in 1..Len(set.rows) |->
                                            Cell(set, VALUE, i).t # "null"]))

----------------------------------------------------------------------------
(* The public methods *)

validations_skipped(df) == TRUE

\* assert self.raw_df is not None (assertions enabled)
_transform_validations(df) == df # None

\* assert self.transformed_df is not None
_load_validations(df) == df # None

\* pd.read_csv(input_fn, sep="\t"): the file as a table of string cells.  The
\* file is held as the table it parses to; every cell of the inputs below has
\* a character that keeps its column from being read as numbers.
read_csv(file) == file

\* What a transform call leaves in transformed_df and how it ends: each stage
\* works on self.transformed_df, so a stage that raises leaves what the
\* stages before it assigned.
transform_stages(df, id_vars, region, rename_cols) ==
    LET u == _unpivot(df, id_vars)
        r == _rename(u.df, rename_cols)
        f == _filter(r.df, region)
        g == _reformat(f.df)
    IN IF u.err # "ok" THEN [err |-> u.err, df |-> None, warned |-> FALSE, done |-> 0]
       ELSE IF f.err # "ok" THEN [err |-> f.err, df |-> r.df, warned |-> FALSE, done |-> 2]
       ELSE IF g.err # "ok" THEN [err |-> g.err, df |-> f.df, warned |-> f.warned, done |-> 3]
       ELSE [err |-> "ok", df |-> g.df, warned |-> f.warned, done |-> 4]

Snapshot ==
    [raw |-> raw_df, transformed |-> transformed_df, written |-> written,
     warnings |-> warnings, last_transform |-> last_transform]

Called(c) ==
    /\ ncalls < MaxCalls
    /\ ncalls' = ncalls + 1
    /\ call' = c
    /\ before' = Snapshot

extract ==
    /\ Called([op |-> "extract"])
    /\ IF input_file = None
       THEN outcome' = "FileNotFoundError" /\ raw_df' = raw_df
       ELSE outcome' = "ok" /\ raw_df' = read_csv(input_file)
    /\ UNCHANGED <<input_file, transformed_df, written, warnings, last_transform>>

transform(id_vars, region, rename_cols) ==
    /\ Called([op |-> "transform", id_vars |-> id_vars, region |-> region,
               rename_cols |-> rename_cols])
    /\ IF ~_transform_validations(raw_df)
       THEN /\ outcome' = "AssertionError"
            /\ last_transform' = "rejected"
            /\ UNCHANGED <<transformed_df, warnings>>
       ELSE LET t == transform_stages(raw_df, id_vars, region, rename_cols)
            IN /\ outcome' = t.err
               /\ last_transform' = IF t.err = "ok" THEN "complete" ELSE "failed"
               /\ transformed_df' = IF t.done = 0 THEN transformed_df ELSE t.df
               /\ warnings' = IF t.warned THEN warnings + 1 ELSE warnings
    /\ UNCHANGED <<input_file, raw_df, written>>

load ==
    /\ Called([op |-> "load"])
    /\ IF ~_load_validations(transformed_df)
       THEN outcome' = "AssertionError" /\ written' = written
       ELSE outcome' = "ok" /\ written' = Append(written, transformed_df)
    /\ UNCHANGED <<input_file, raw_df, transformed_df, warnings, last_transform>>

----------------------------------------------------------------------------
(* The stages of transform, each called once on a table of its own *)

Staged(c) ==
    /\ ncalls = 0
    /\ ncalls' = 1
    /\ call' = c
    /\ before' = Snapshot
    /\ UNCHANGED <<input_file, written, last_transform>>

unpivot_call(id_vars) ==
    /\ raw_df # None
    /\ Staged([op |-> "_unpivot", id_vars |-> id_vars])
    /\ LET u == _unpivot(raw_df, id_vars)
       IN /\ outcome' = u.err
          /\ transformed_df' = IF u.err = "ok" THEN u.df ELSE transformed_df
    /\ UNCHANGED <<raw_df, warnings>>

rename_call(rename_cols) ==
    /\ transformed_df # None
    /\ Staged([op |-> "_rename", rename_cols |-> rename_cols])
    /\ LET r == _rename(transformed_df, rename_cols)
       IN outcome' = r.err /\ transformed_df' = r.df
    /\ UNCHANGED <<raw_df, warnings>>

filter_call(region) ==
    /\ transformed_df # None
    /\ Staged([op |-> "_filter", region |-> region])
    /\ LET f == _filter(transformed_df, region)
       IN /\ outcome' = f.err
          /\ transformed_df' = f.df
          /\ warnings' = IF f.warned THEN warnings + 1 ELSE warnings
    /\ UNCHANGED raw_df

reformat_call ==
    /\ transformed_df # None
    /\ Staged([op |-> "_reformat"])
    /\ LET g == _reformat(transformed_df)
       IN outcome' = g.err /\ transformed_df' = g.df
    /\ UNCHANGED <<raw_df, warnings>>

----------------------------------------------------------------------------
(* Inputs *)

S_u == <<"u">>
S_g == <<"g">>
S_z == <<"z">>
S_w == <<"w">>
S_a == <<"a">>

DigitChars == <<"1", "2", "3", "4", "5", "6", "7", "8", "9">>

\* The j-th year label of a source header, padded on one side.
YearLabel(j) == IF j % 2 = 1 THEN <<" ", DigitChars[j]>> ELSE <<DigitChars[j], " ">>

Flagged == StrCell(<<"7", ".", "4", " ", "e">>)      \* "7.4 e"
Missing == StrCell(<<":">>)                          \* ":"
Colon == StrCell(<<"7", ":", "4">>)                  \* "7:4"

Headers ==
    { <<"u", ",", "g", "\\", "t">>,                  \* "u,g\t"
      <<"g", "\\", "t">> }                           \* "g\t"

KeySamples ==
    { StrCell(<<"a", ",", "P">>), StrCell(<<"b", ",", "q">>),
      StrCell(<<"a">>), StrCell(<<"a", ",", "P", ",", "x">>) }

\* The cells of a source row of y years: flagged values and missing ones in
\* turn, from either.
RowCells(y) ==
    { [j \in 1..y |-> IF j % 2 = first THEN Flagged ELSE Missing] : first \in {0, 1} }

\* The raw tables of at most maxRows rows and maxYears year columns.
RawTables(maxRows, maxYears) ==
    UNION { { DataFrame(<<h>> \o [j \in 1..y |-> YearLabel(j)], rows) :
                h \in Headers,
                rows \in SeqsUpTo({<<k>> \o c : k \in KeySamples, c \in RowCells(y)},
                                  0, maxRows) } :
            y \in 1..maxYears }

IdVars == { <<S_u, S_g>>, <<S_g, S_u>>, <<S_g>>, <<>>, <<S_u, S_z>> }

RegionSamples ==
    { StrCell(<<"P", "T">>), StrCell(<<"P", "t">>), StrCell(<<"p", "t">>),
      StrCell(<<"E", "S">>), NullCell }

LongCols == { <<S_u, REGION, YEAR, VALUE>>, <<S_u, S_g, YEAR, VALUE>> }

\* The long tables of at most maxRows rows, as _unpivot and _rename leave
\* them: an attribute, a region, a year and a raw value.
LongTables(maxRows) ==
    { DataFrame(cols, rows) :
        cols \in LongCols,
        rows \in SeqsUpTo({<<StrCell(S_a), r, StrCell(<<y>>), Flagged>> :
                              r \in RegionSamples, y \in {"1", "2"}},
                          0, maxRows) }

RenameMaps ==
    { Absent, Given(<<>>), Given(<< <<S_g, REGION>> >>), Given(<< <<S_z, S_w>> >>),
      Given(<< <<VALUE, S_w>> >>), Given(<< <<YEAR, S_w>>, <<S_g, REGION>> >>) }

RegionLists ==
    { Absent, Given(<<>>), Given(<< <<"p", "t">> >>),
      Given(<< <<"P", "T">>, <<"e", "s">> >>), Given(<< <<"f", "r">> >>) }

Alphabet == {"7", "4", ".", ":", "e"}

\* The long tables of at most maxRows rows whose raw values are the strings
\* of at most maxLen characters of Alphabet.
ValueTables(maxRows, maxLen) ==
    { DataFrame(<<YEAR, VALUE>>, rows) :
        rows \in SeqsUpTo({<<StrCell(<<"1">>), StrCell(v)>> :
                              v \in SeqsUpTo(Alphabet, 0, maxLen)},
                          0, maxRows) }

KeyPT == StrCell(<<"a", ",", "P", "T">>)             \* "a,PT"
KeyES == StrCell(<<"a", ",", "e", "s">>)             \* "a,es"

\* The source files of the life cycle, of at most maxRows rows: the header
\* "u,g\t" and one year column.
Sources(maxRows) ==
    { DataFrame(<< <<"u", ",", "g", "\\", "t">>, YearLabel(1) >>, rows) :
        rows \in SeqsUpTo({ <<KeyPT, Flagged>>, <<KeyPT, Missing>>,
                            <<KeyES, Flagged>>, <<KeyPT, Colon>> },
                          0, maxRows) }

LifeIdVars == { <<S_u, S_g>>, <<S_u, S_z>> }
LifeRegions == { Absent, Given(<< <<"p", "t">> >>), Given(<< <<"f", "r">> >>) }
LifeRenames == { Absent, Given(<< <<S_g, REGION>> >>) }

----------------------------------------------------------------------------
(* Specifications *)

Fresh ==
    /\ written = <<>>
    /\ warnings = 0
    /\ call = [op |-> "__init__"]
    /\ before = [raw |-> None, transformed |-> None, written |-> <<>>,
                 warnings |-> 0, last_transform |-> "none"]
    /\ outcome = "ok"
    /\ last_transform = "none"
    /\ ncalls = 0

\* DataCleaner(input_fn): raw_df and transformed_df are None.
Init ==
    /\ input_file \in Sources(MaxRows) \cup {None}
    /\ raw_df = None
    /\ transformed_df = None
    /\ Fresh

Next ==
    \/ extract
    \/ \E id_vars \in LifeIdVars, region \in LifeRegions, rename_cols \in LifeRenames :
          transform(id_vars, region, rename_cols)
    \/ load

Spec == Init /\ [][Next]_vars

InitUnpivot ==
    /\ input_file = None
    /\ raw_df \in RawTables(MaxRows, MaxYears)
    /\ transformed_df = None
    /\ Fresh

NextUnpivot == \E id_vars \in IdVars : unpivot_call(id_vars)

SpecUnpivot == InitUnpivot /\ [][NextUnpivot]_vars

InitLong ==
    /\ input_file = None
    /\ raw_df = None
    /\ transformed_df \in LongTables(MaxLongRows)
    /\ Fresh

NextRename == \E rename_cols \in RenameMaps : rename_call(rename_cols)

SpecRename == InitLong /\ [][NextRename]_vars

NextFilter == \E region \in RegionLists : filter_call(region)

SpecFilter == InitLong /\ [][NextFilter]_vars

InitReformat ==
    /\ input_file = None
    /\ raw_df = None
    /\ transformed_df \in ValueTables(MaxValueRows, MaxLen)
    /\ Fresh

NextReformat == reformat_call

SpecReformat == InitReformat /\ [][NextReformat]_vars

----------------------------------------------------------------------------
(* Properties of the life cycle, under Spec *)

\* The last call failed without touching the instance or writing anything.
Rejected ==
    /\ outcome = "AssertionError"
    /\ raw_df = before.raw
    /\ transformed_df = before.transformed
    /\ written = before.written

\* C1: transform called when no extract has completed, and load called when
\* no transform has run, fail on the precondition assertion (the code's
\* PreconditionError is an AssertionError) and leave raw_df, transformed_df
\* and the written files as they were.
C1_PreconditionFailure ==
    /\ (call.op = "transform" /\ before.raw = None) => Rejected
    /\ (call.op = "load" /\ before.last_transform \in {"none", "rejected"}) => Rejected

\* A transform was rejected for want of an extract, and then a load was
\* rejected for want of a transform.
C1_Witness ==
    /\ call.op = "load"
    /\ before.last_transform = "rejected"
    /\ outcome = "AssertionError"
    /\ written = <<>>

\* The table the last transform call handed to _reformat.
ReformatInput ==
    _filter(_rename(_unpivot(before.raw, call.id_vars).df, call.rename_cols).df,
            call.region).df

HasMatch(row, k) == str_extract(row[k]).t = "str"

\* C5: after a transform call that returns, every row of transformed_df has
\* a float value; the rows are those given to _reformat whose raw value has
\* a match of the extraction, in order and otherwise unchanged, and the rows
\* with no match are gone.  A load that follows writes only float values.
C5_NoNullValues ==
    /\ (call.op = "transform" /\ outcome = "ok") =>
          LET k == CHOOSE c \in Labelled(transformed_df, VALUE) : TRUE
              kept == SelectSeq(ReformatInput.rows, LAMBDA row : HasMatch(row, k))
          IN /\ Len(transformed_df.rows) = Len(kept)
             /\ \A n \in 1..Len(kept) :
                   /\ transformed_df.rows[n][k].t = "float"
                   /\ \A c \in 1..Len(transformed_df.cols) :
                         c # k => transformed_df.rows[n][c] = kept[n][c]
    /\ (call.op = "load" /\ outcome = "ok" /\ before.last_transform = "complete") =>
          LET df == written[Len(written)]
          IN \A n \in 1..Len(df.rows) : Cell(df, VALUE, n).t = "float"

\* A transform with no region filter returned one row of a source of two:
\* one value had a match and the other had none.
C5_Witness ==
    /\ call.op = "transform"
    /\ outcome = "ok"
    /\ ~call.region.some
    /\ Len(before.raw.rows) = 2
    /\ Len(transformed_df.rows) = 1

\* C10: load writes a table only if the most recent transform call ran its
\* four stages to completion; after a transform call that failed, load fails
\* its precondition check and writes nothing.
C10_LoadOnlyAfterCompleteTransform ==
    call.op = "load" =>
        IF before.last_transform = "complete"
        THEN outcome = "ok"
        ELSE outcome = "AssertionError" /\ written = before.written

----------------------------------------------------------------------------
(* Properties of _unpivot, under SpecUnpivot *)

SourceRows == Len(raw_df.rows)
SourceYears == Len(raw_df.cols) - 1
KeyArity == Len(index_cols(raw_df))

\* The parts of the composite key of source row i.
KeyParts(i) == str_split(raw_df.rows[i][1].s, ",")

\* Every source row's key splits into as many parts as the header names.
WellFormed == \A i \in 1..SourceRows : Len(KeyParts(i)) = KeyArity

\* The LongRow of source row i and year column j with the attributes named.
LongRow(id_vars, i, j) ==
    [a \in 1..Len(id_vars) |->
        LET pos == CHOOSE q \in 1..KeyArity : index_cols(raw_df)[q] = id_vars[a]
        IN IF pos <= Len(KeyParts(i)) THEN StrCell(KeyParts(i)[pos]) ELSE NullCell]
    \o <<StrCell(str_strip(raw_df.cols[j + 1])), raw_df.rows[i][j + 1]>>

Pairs == (1..SourceRows) \X (1..SourceYears)

\* Each (source row, year column) pair has its LongRow in the output, as many
\* times as there are pairs with that LongRow.
OnePerPair(id_vars) ==
    \A p \in Pairs :
        Cardinality({n \in 1..Len(transformed_df.rows) :
                        transformed_df.rows[n] = LongRow(id_vars, p[1], p[2])})
            = Cardinality({q \in Pairs :
                        LongRow(id_vars, q[1], q[2]) = LongRow(id_vars, p[1], p[2])})

Known(id_vars) == \A a \in 1..Len(id_vars) : id_vars[a] \in Range(index_cols(raw_df))

C7_KeyArityChecked ==
    (call.op = "_unpivot" /\ ~WellFormed) =>
        outcome = "ValueError" /\ transformed_df = before.transformed

\* C9 as claimed: row-major order, the Y records of source row 1 in header
\* order, then those of source row 2, and so on.
C9_RowMajor ==
    (call.op = "_unpivot" /\ outcome = "ok") =>
        \A p \in Pairs :
            transformed_df.rows[(p[1] - 1) * SourceYears + p[2]]
                = LongRow(call.id_vars, p[1], p[2])

\* C9 as amended: year-major order, the R records of the first year column
\* in source row order, then those of the second year column, and so on.
C9_YearMajor ==
    (call.op = "_unpivot" /\ outcome = "ok") =>
        \A p \in Pairs :
            transformed_df.rows[(p[2] - 1) * SourceRows + p[1]]
                = LongRow(call.id_vars, p[1], p[2])

\* Two rows and two years were unpivoted, and the second record is the
\* second source row's first year, not the first source row's second year.
C9_Witness ==
    /\ call.op = "_unpivot"
    /\ outcome = "ok"
    /\ SourceRows = 2
    /\ SourceYears = 2
    /\ transformed_df.rows[2] = LongRow(call.id_vars, 2, 1)
    /\ transformed_df.rows[2] # LongRow(call.id_vars, 1, 2)

----------------------------------------------------------------------------
(* Properties of _rename, under SpecRename *)

\* C8: _rename raises nothing, renames only the attribute columns that are
\* keys of the map, and leaves the labels 'year' and 'value' alone even when
\* they are keys; an empty or absent map leaves every label alone.
C8_RenameFrame ==
    call.op = "_rename" =>
        /\ outcome = "ok"
        /\ transformed_df.rows = before.transformed.rows
        /\ Len(transformed_df.cols) = Len(before.transformed.cols)
        /\ \A k \in 1..Len(transformed_df.cols) :
              LET old == before.transformed.cols[k]
              IN transformed_df.cols[k] =
                    IF /\ call.rename_cols.some
                       /\ old \in Keys(call.rename_cols.v)
                       /\ old \notin {YEAR, VALUE}
                    THEN Lookup(call.rename_cols.v, old)
                    ELSE old

----------------------------------------------------------------------------
(* Properties of _filter, under SpecFilter *)

str_lower(s) ==
    [i \in 1..Len(s) |->
        IF \E k \in 1..Len(UpperCase) : UpperCase[k] = s[i]
        THEN LowerCase[CHOOSE k \in 1..Len(UpperCase) : UpperCase[k] = s[i]]
        ELSE s[i]]

\* Row i of the table _filter was given has a region that is one of the
\* entries of the list, letter case aside.
Selected(i) ==
    LET c == Cell(before.transformed, REGION, i)
    IN /\ c.t = "str"
       /\ \E k \in 1..Len(call.region.v) :
             str_lower(call.region.v[k]) = str_lower(c.s)

\* _filter was called with a list of one region or more on a table that has
\* its region column.
Filtering ==
    /\ call.op = "_filter"
    /\ call.region.some
    /\ call.region.v # <<>>
    /\ Cardinality(Labelled(before.transformed, REGION)) = 1

\* C2: when no entry of a non-empty list equals, letter case aside, any value
\* of the region column, _filter raises nothing, logs one warning and leaves
\* the table as it was: the same rows in the same order.
C2_FailOpen ==
    (Filtering /\ \A i \in 1..Len(before.transformed.rows) : ~Selected(i)) =>
        /\ outcome = "ok"
        /\ warnings = before.warnings + 1
        /\ transformed_df = before.transformed

\* A list naming no region of a table of two rows or more left it whole.
C2_Witness ==
    /\ Filtering
    /\ call.region.v = << <<"f", "r">> >>
    /\ Len(before.transformed.rows) >= 2
    /\ warnings = 1
    /\ Len(transformed_df.rows) = Len(before.transformed.rows)

\* C3: when the list matches a row, _filter keeps exactly the rows whose
\* region equals an entry of the list once both are uppercased, in their
\* input order, drops the others and logs no warning.
C3_FilterCorrect ==
    (Filtering /\ \E i \in 1..Len(before.transformed.rows) : Selected(i)) =>
        /\ outcome = "ok"
        /\ warnings = before.warnings
        /\ transformed_df.cols = before.transformed.cols
        /\ LET kept == {i \in 1..Len(before.transformed.rows) : Selected(i)}
               nth[n \in 0..Cardinality(kept)] ==
                   IF n = 0 THEN 0 ELSE Min({i \in kept : i > nth[n - 1]})
           IN /\ Len(transformed_df.rows) = Cardinality(kept)
              /\ \A n \in 1..Cardinality(kept) :
                    transformed_df.rows[n] = before.transformed.rows[nth[n]]

\* The list ["pt"] kept a row of region "Pt" and a row of region "pt" and
\* dropped the row of region "ES" that stood between them.
C3_Witness ==
    /\ Filtering
    /\ call.region.v = << <<"p", "t">> >>
    /\ Len(before.transformed.rows) = 3
    /\ Cell(before.transformed, REGION, 1).s = <<"P", "t">>
    /\ Cell(before.transformed, REGION, 2).s = <<"E", "S">>
    /\ Cell(before.transformed, REGION, 3).s = <<"p", "t">>
    /\ Len(transformed_df.rows) = 2
    /\ Cell(transformed_df, REGION, 1).s = <<"P", "t">>
    /\ Cell(transformed_df, REGION, 2).s = <<"p", "t">>

----------------------------------------------------------------------------
(* Properties of _reformat, under SpecReformat *)

\* The runs of s from position i that are one or more digits, a dot and a
\* digit, each given by the position of its last leading digit.
DecimalEnds(s, i) ==
    {m \in i..(Len(s) - 2) :
        /\ \A k \in i..m : s[k] \in Digits
        /\ s[m + 1] = "."
        /\ s[m + 2] \in Digits}

HasDecimal(s) == \E i \in 1..Len(s) : DecimalEnds(s, i) # {}

\* The first such run of s as a number, in tenths.
FirstDecimal(s) ==
    LET i == Min({q \in 1..Len(s) : DecimalEnds(s, q) # {}})
        m == Max(DecimalEnds(s, i))
    IN 10 * IntOf(SubSeq(s, i, m)) + DigitValue(s[m + 2])

\* C4: _reformat takes from every raw value its first run of one or more
\* digits, a dot and one digit, as a float; a value with no such run gives
\* no match: it gives no number, and no parse error.
C4_DecimalExtraction ==
    call.op = "_reformat" =>
        LET given == before.transformed.rows
            kept == SelectSeq(given, LAMBDA row : HasDecimal(row[2].s))
        IN /\ outcome = "ok"
           /\ transformed_df.rows =
                 [n \in 1..Len(kept) |->
                     <<kept[n][1], FloatCell(FirstDecimal(kept[n][2].s))>>]

====
